---- MODULE Spec2Model ----
(***************************************************************************)
(* Model of the clinic revenue report: get_report.py (table normalisation  *)
(* and report building) and streamlit_app.py (the upload boundary).        *)
(*                                                                         *)
(* A DataFrame is a record [columns, rows]: columns is the sequence of     *)
(* column labels, rows a sequence of rows, each a sequence of cells        *)
(* aligned with columns.  Before rename_cols a label is the tuple of the   *)
(* three header tiers; afterwards it is the flat string.                   *)
(***************************************************************************)
EXTENDS Integers, Sequences, FiniteSets, TLC

VARIABLES pc, uploaded_file, df, fig, buffer, shown, calls

vars == <<pc, uploaded_file, df, fig, buffer, shown, calls>>

\* Python's None, a record so that it compares with the records the variables hold
None == [none |-> TRUE]
NaN == "NaN"

(***************************************************************************)
(* Bounds of the model.                                                    *)
(***************************************************************************)
MaxRows == 2

(***************************************************************************)
(* Generic helpers.                                                        *)
(***************************************************************************)
Range(s) == {s[i] : i \in 1..Len(s)}

RECURSIVE SumSeq(_)
SumSeq(s) == IF s = <<>> THEN 0 ELSE Head(s) + SumSeq(Tail(s))

RECURSIVE SelectTrue(_, _)
\* the elements of s whose position is flagged in keep, in order
SelectTrue(s, keep) ==
    IF s = <<>> THEN <<>>
    ELSE (IF Head(keep) THEN <<Head(s)>> ELSE <<>>) \o SelectTrue(Tail(s), Tail(keep))

\* Python: sub in s
Contains(sub, s) ==
    \E i \in 1..(Len(s) - Len(sub) + 1) : SubSeq(s, i, i + Len(sub) - 1) = sub

\* a missing cell, whatever the type of the other cells of the column
IsNa(v) == ToString(v) = ToString(NaN)

(***************************************************************************)
(* REVENUE_GENERATING_CATEGORIES, "Lab" twice as in the source.            *)
(***************************************************************************)
REVENUE_GENERATING_CATEGORIES ==
    <<"Consultation", "Lab", "Radiology", "Procedure", "Lab", "Consumable", "Drug">>

\* the fixed metadata columns of focus_on_specific_columns
MetadataColumns ==
    <<"Net Revenue", "Ins.", "Policy Name", "New Reg.", "Old Reg.",
      "Speciality", "Doctor Name", "(CVR) Date">>

(***************************************************************************)
(* DataFrame primitives (pandas).                                          *)
(***************************************************************************)
HasCol(d, name) == \E i \in 1..Len(d.columns) : d.columns[i] = name

ColIdx(d, name) == CHOOSE i \in 1..Len(d.columns) : d.columns[i] = name

\* d[name] : the column as a sequence of cells
Col(d, name) == [r \in 1..Len(d.rows) |-> d.rows[r][ColIdx(d, name)]]

\* d[names] : the listed columns in the listed order (a label listed twice is
\* selected twice); KeyError when a label is absent
CanSelect(d, names) == \A i \in 1..Len(names) : HasCol(d, names[i])

SelectCols(d, names) ==
    [columns |-> names,
     rows |-> [r \in 1..Len(d.rows) |->
                 [i \in 1..Len(names) |-> d.rows[r][ColIdx(d, names[i])]]]]

\* d[name] = values : overwrite the column when present, append it otherwise
SetCol(d, name, values) ==
    IF HasCol(d, name)
    THEN [d EXCEPT !.rows = [r \in 1..Len(d.rows) |->
                               [d.rows[r] EXCEPT ![ColIdx(d, name)] = values[r]]]]
    ELSE [columns |-> Append(d.columns, name),
          rows |-> [r \in 1..Len(d.rows) |-> Append(d.rows[r], values[r])]]

\* d.drop(labels, axis=1) : every column whose label is listed goes
DropCols(d, labels) ==
    LET keep == [i \in 1..Len(d.columns) |-> d.columns[i] \notin Range(labels)]
    IN [columns |-> SelectTrue(d.columns, keep),
        rows |-> [r \in 1..Len(d.rows) |-> SelectTrue(d.rows[r], keep)]]

\* d.dropna(axis=1, how="all") : a column stays when some cell of it is present
DropNaColumns(d) ==
    LET keep == [i \in 1..Len(d.columns) |->
                   \E r \in 1..Len(d.rows) : ~IsNa(d.rows[r][i])]
    IN [columns |-> SelectTrue(d.columns, keep),
        rows |-> [r \in 1..Len(d.rows) |-> SelectTrue(d.rows[r], keep)]]

(***************************************************************************)
(* DataFrameOperations.rename_cols                                         *)
(***************************************************************************)
RECURSIVE JoinTiers(_)
\* new_col_name += f"{col}_" for every tier that is not an "Unnamed" one
JoinTiers(col_list) ==
    IF col_list = <<>> THEN ""
    ELSE (IF ~Contains("Unnamed", Head(col_list)) THEN Head(col_list) \o "_" ELSE "")
         \o JoinTiers(Tail(col_list))

\* new_col_name[:-1]
DropLastChar(s) == IF Len(s) = 0 THEN s ELSE SubSeq(s, 1, Len(s) - 1)

FlatName(col_list) == DropLastChar(JoinTiers(col_list))

rename_cols(d) ==
    [d EXCEPT !.columns = [i \in 1..Len(d.columns) |-> FlatName(d.columns[i])]]

(***************************************************************************)
(* DataFrameOperations.focus_on_specific_columns                           *)
(***************************************************************************)
NetColumns(d) ==
    SelectTrue(d.columns, [i \in 1..Len(d.columns) |-> Contains("_Net_", d.columns[i])])

\* mutant: "Speciality" is left out of the required columns
RequiredColsWithoutSpeciality(d) ==
    NetColumns(d)
    \o SelectTrue(MetadataColumns,
                  [i \in 1..Len(MetadataColumns) |-> MetadataColumns[i] # "Speciality"])

required_cols(d) == NetColumns(d) \o MetadataColumns

Pad2(n) == IF n < 10 THEN "0" \o ToString(n) ELSE ToString(n)

\* x.strftime("%Y-%m-%d") of a date <<year, month, day>>
Strftime(x) == ToString(x[1]) \o "-" \o Pad2(x[2]) \o "-" \o Pad2(x[3])

focus_on_specific_columns(d) ==
    LET sel == SelectCols(d, required_cols(d))
    IN SetCol(sel, "(CVR) Date",
              [r \in 1..Len(sel.rows) |-> Strftime(Col(sel, "(CVR) Date")[r])])

(***************************************************************************)
(* DataFrameOperations.get_revenue_per_category                            *)
(***************************************************************************)
CashCol(category) == category \o "_Net_Cash"
InsCol(category) == category \o "_Net_Ins."

\* the loop can run: every category's two sub-columns are present
CanFold(d) ==
    \A k \in 1..Len(REVENUE_GENERATING_CATEGORIES) :
        /\ HasCol(d, CashCol(REVENUE_GENERATING_CATEGORIES[k]))
        /\ HasCol(d, InsCol(REVENUE_GENERATING_CATEGORIES[k]))

\* mutant: a category met again is added onto the column it already has
FoldOneAccumulating(d, category) ==
    SetCol(d, category,
           [r \in 1..Len(d.rows) |->
              (IF HasCol(d, category) THEN Col(d, category)[r] ELSE 0)
              + Col(d, CashCol(category))[r] + Col(d, InsCol(category))[r]])

\* df[category] = df[category + "_Net_Cash"] + df[category + "_Net_Ins."]
FoldOne(d, category) ==
    SetCol(d, category,
           [r \in 1..Len(d.rows) |->
              Col(d, CashCol(category))[r] + Col(d, InsCol(category))[r]])

RECURSIVE FoldFrom(_, _)
FoldFrom(d, k) ==
    IF k > Len(REVENUE_GENERATING_CATEGORIES) THEN d
    ELSE FoldFrom(FoldOne(d, REVENUE_GENERATING_CATEGORIES[k]), k + 1)

\* mutant: only the cash sub-columns are listed for removal
RemoveColsCashOnly ==
    [k \in 1..Len(REVENUE_GENERATING_CATEGORIES) |->
        CashCol(REVENUE_GENERATING_CATEGORIES[k])]

remove_cols ==
    [j \in 1..(2 * Len(REVENUE_GENERATING_CATEGORIES)) |->
        IF j % 2 = 1 THEN CashCol(REVENUE_GENERATING_CATEGORIES[(j + 1) \div 2])
                     ELSE InsCol(REVENUE_GENERATING_CATEGORIES[j \div 2])]

get_revenue_per_category(d) == DropCols(FoldFrom(d, 1), remove_cols)

(***************************************************************************)
(* Report: the aggregates.  An Indicator is [value, title], a PieChart is  *)
(* [labels, values, textinfo].                                             *)
(***************************************************************************)
NonZero(x) == IF x # 0 THEN 1 ELSE 0

\* frame.map(lambda x: x != 0).sum().sum()
CountNonZero(d) ==
    SumSeq([r \in 1..Len(d.rows) |->
              SumSeq([i \in 1..Len(d.columns) |-> NonZero(d.rows[r][i])])])

calculate_number_of_episodes(d) ==
    [value |-> CountNonZero(SelectCols(d, REVENUE_GENERATING_CATEGORIES)),
     title |-> "Revenue Generating<br>Episodes"]

calculate_number_of_patients(d) ==
    [value |-> Len(d.rows), title |-> "Number of Patients"]

calculate_net_revnenue(d) ==
    [value |-> SumSeq(Col(d, "Net Revenue")), title |-> "Net Revenue"]

calculate_new_vs_old_reg(d) ==
    [labels |-> <<"New", "Old">>,
     values |-> <<SumSeq(Col(d, "New Reg.")), SumSeq(Col(d, "Old Reg."))>>,
     textinfo |-> "label+value"]

\* ---- groupby("Speciality"): the group keys come out sorted ----
Alphabet == " .ABCDEFGHIJKLMNOPQRSTUVWXYZabcdefghijklmnopqrstuvwxyz"

CharRank(c) == CHOOSE i \in 1..Len(Alphabet) : SubSeq(Alphabet, i, i) = c

RECURSIVE StrLess(_, _)
StrLess(a, b) ==
    IF Len(b) = 0 THEN FALSE
    ELSE IF Len(a) = 0 THEN TRUE
    ELSE LET x == CharRank(SubSeq(a, 1, 1))
             y == CharRank(SubSeq(b, 1, 1))
         IN IF x # y THEN x < y
            ELSE StrLess(SubSeq(a, 2, Len(a)), SubSeq(b, 2, Len(b)))

RECURSIVE SortedKeys(_)
SortedKeys(S) ==
    IF S = {} THEN <<>>
    ELSE LET m == CHOOSE x \in S : \A y \in S \ {x} : StrLess(x, y)
         IN <<m>> \o SortedKeys(S \ {m})

GroupKeys(d, by) == SortedKeys(Range(Col(d, by)))

\* groupby(by).sum()[col] for one group key
GroupSum(d, by, key, col) ==
    SumSeq([r \in 1..Len(d.rows) |->
              IF Col(d, by)[r] = key THEN Col(d, col)[r] ELSE 0])

LabelWidth == 6

\* mutant: the slice is one character too long
TruncateOneMore(i) == IF Len(i) <= LabelWidth + 1 THEN i ELSE SubSeq(i, 1, LabelWidth + 1)

\* i[:6]
Truncate(i) == IF Len(i) <= LabelWidth THEN i ELSE SubSeq(i, 1, LabelWidth)

calculate_revenue_per_speciality(d) ==
    LET index == GroupKeys(d, "Speciality")
    IN [labels |-> [k \in 1..Len(index) |-> Truncate(index[k])],
        values |-> [k \in 1..Len(index) |->
                      GroupSum(d, "Speciality", index[k], "Net Revenue")],
        textinfo |-> "label+value"]

\* mutant: the insurance sum is not taken off the net revenue
InsuranceValuesGross(non_insurance, insurance) == <<non_insurance + insurance, insurance>>

InsuranceValues(non_insurance, insurance) == <<non_insurance, insurance>>

calculate_insurance_vs_non_insurance(d) ==
    LET insurance == SumSeq(Col(d, "Ins."))
        non_insurance == SumSeq(Col(d, "Net Revenue")) - insurance
    IN [labels |-> <<"Non Ins", "Ins">>,
        values |-> InsuranceValues(non_insurance, insurance),
        textinfo |-> "label+value"]

\* ---- a dict as the sequence of its <<key, value>> items, in insertion order ----
DictHas(dict, key) == \E i \in 1..Len(dict) : dict[i][1] = key

DictSet(dict, key, value) ==
    IF DictHas(dict, key)
    THEN [i \in 1..Len(dict) |-> IF dict[i][1] = key THEN <<key, value>> ELSE dict[i]]
    ELSE Append(dict, <<key, value>>)

\* mutant: the zero test is dropped
KeepEpisodesAlways(episodes) == TRUE

\* if episodes != 0: episodes_per_category[category] = episodes
KeepEpisodes(episodes) == episodes # 0

RECURSIVE EpisodesFrom(_, _, _)
EpisodesFrom(d, k, dict) ==
    IF k > Len(REVENUE_GENERATING_CATEGORIES) THEN dict
    ELSE LET category == REVENUE_GENERATING_CATEGORIES[k]
             episodes == CountNonZero(SelectCols(d, <<category>>))
         IN EpisodesFrom(d, k + 1,
                         IF KeepEpisodes(episodes) THEN DictSet(dict, category, episodes)
                                                   ELSE dict)

calculate_episodes_per_category(d) ==
    LET episodes_per_category == EpisodesFrom(d, 1, <<>>)
    IN [labels |-> [i \in 1..Len(episodes_per_category) |-> episodes_per_category[i][1]],
        values |-> [i \in 1..Len(episodes_per_category) |-> episodes_per_category[i][2]],
        textinfo |-> "label+value"]

(***************************************************************************)
(* Report.make_plot: the figure.                                           *)
(***************************************************************************)
GridRows == 3
GridCols == 3

\* specs= of make_subplots: the trace type each cell of the grid takes
SubplotType(row, col) == IF row = 1 THEN "indicator" ELSE "pie"

make_subplots(x_title) ==
    [rows |-> GridRows, cols |-> GridCols, x_title |-> x_title,
     traces |-> <<>>, layout |-> None]

\* mutant: row and col are passed the wrong way round
AddTraceTransposed(f, trace, row, col) ==
    [f EXCEPT !.traces = Append(@, [trace |-> trace, row |-> col, col |-> row])]

\* fig.add_trace(trace, row=row, col=col)
add_trace(f, trace, row, col) ==
    [f EXCEPT !.traces = Append(@, [trace |-> trace, row |-> row, col |-> col])]

Indicator(of, data) == [type |-> "indicator", mode |-> "number", of |-> of, data |-> data]
Pie(of, data) == [type |-> "pie", of |-> of, data |-> data]

LayoutHeight == 800
LayoutWidth == 1000

update_layout(f) ==
    [f EXCEPT !.layout = [height |-> LayoutHeight, width |-> LayoutWidth,
                          showlegend |-> FALSE]]

(***************************************************************************)
(* The uploaded sheets the model draws from: the header (three tiers per   *)
(* column) and the data rows as read_excel returns them.                   *)
(***************************************************************************)
Unnamed1 == "Unnamed: 0_level_1"
Unnamed2 == "Unnamed: 0_level_2"

SheetCategories == <<"Consultation", "Lab", "Radiology", "Procedure", "Consumable", "Drug">>

\* an export's full header: per category Net Cash and Net Ins., one Gross column,
\* the metadata columns, and a trailing column that holds no value at all
FullHeader ==
    [j \in 1..(2 * Len(SheetCategories)) |->
        <<SheetCategories[(j + 1) \div 2], "Net", IF j % 2 = 1 THEN "Cash" ELSE "Ins.">>]
    \o << <<"Consultation", "Gross", "Cash">> >>
    \o [i \in 1..Len(MetadataColumns) |-> <<MetadataColumns[i], Unnamed1, Unnamed2>>]
    \o << <<"Unnamed: 30_level_0", Unnamed1, Unnamed2>> >>

\* a Net column of a category that is not in REVENUE_GENERATING_CATEGORIES
PackageColumn == <<"Package", "Net", "Cash">>

\* the columns a sheet may lack
Omittable ==
    {<<MetadataColumns[i], Unnamed1, Unnamed2>> : i \in 1..Len(MetadataColumns)}
    \cup {<<"Drug", "Net", "Ins.">>, <<"Lab", "Net", "Cash">>}

Headers ==
    {FullHeader, FullHeader \o <<PackageColumn>>}
    \cup {SelectTrue(FullHeader, [i \in 1..Len(FullHeader) |-> FullHeader[i] # c]) :
            c \in Omittable}

\* one patient visit: revenue in one category, split into cash and insurance
Visit(category, cash, ins, speciality, new) ==
    [category |-> category, cash |-> cash, ins |-> ins,
     speciality |-> speciality, new |-> new]

Visits ==
    {Visit("Consultation", 60, 40, "Cardiology", 1),
     Visit("Lab", 50, 0, "Cardiology", 0),
     Visit("Lab", 20, 30, "ENT", 1),
     Visit("Drug", 0, 0, "ENT", 0),
     Visit("Consultation", 0, 25, "Dermatology", 0)}

ReportDate == <<2024, 3, 7>>

\* the cell of a visit under a header column
Cell(col_list, v) ==
    IF col_list[2] = "Net"
    THEN IF col_list[1] # v.category THEN 0
         ELSE IF col_list[3] = "Cash" THEN v.cash ELSE v.ins
    ELSE IF col_list[2] = "Gross" THEN v.cash + v.ins + 5
    ELSE IF col_list[1] = "Net Revenue" THEN v.cash + v.ins
    ELSE IF col_list[1] = "Ins." THEN v.ins
    ELSE IF col_list[1] = "Policy Name" THEN (IF v.ins > 0 THEN "Acme" ELSE "Self")
    ELSE IF col_list[1] = "New Reg." THEN v.new
    ELSE IF col_list[1] = "Old Reg." THEN 1 - v.new
    ELSE IF col_list[1] = "Speciality" THEN v.speciality
    ELSE IF col_list[1] = "Doctor Name" THEN "Dr. A"
    ELSE IF col_list[1] = "(CVR) Date" THEN ReportDate
    ELSE NaN

Sheet(header, visits) ==
    [columns |-> header,
     rows |-> [r \in 1..Len(visits) |->
                 [i \in 1..Len(header) |-> Cell(header[i], visits[r])]]]

VisitLists == UNION {[1..n -> Visits] : n \in 0..MaxRows}

(***************************************************************************)
(* The upload boundary (streamlit_app.py) and the steps of the run.        *)
(***************************************************************************)
Aggregates ==
    {"calculate_number_of_episodes", "calculate_number_of_patients",
     "calculate_net_revnenue", "calculate_episodes_per_category",
     "calculate_new_vs_old_reg", "calculate_revenue_per_speciality",
     "calculate_insurance_vs_non_insurance"}

Init ==
    /\ pc = "file_uploader"
    /\ uploaded_file = None
    /\ df = None
    /\ fig = None
    /\ buffer = None
    /\ shown = <<>>
    /\ calls = <<>>

\* an exception leaves the try block for the handler
Raise(where) ==
    /\ pc' = "except"
    /\ calls' = Append(calls, "raise:" \o where)

\* uploaded_file = st.file_uploader(...) returns a file
Upload ==
    /\ pc = "file_uploader"
    /\ \E header \in Headers, visits \in VisitLists :
          uploaded_file' = Sheet(header, visits)
    /\ pc' = "read_excel"
    /\ UNCHANGED <<df, fig, buffer, shown, calls>>

ReadExcel ==
    /\ pc = "read_excel"
    /\ df' = uploaded_file
    /\ pc' = "dropna"
    /\ calls' = Append(calls, "get_df_from_excel")
    /\ UNCHANGED <<uploaded_file, fig, buffer, shown>>

DropNa ==
    /\ pc = "dropna"
    /\ df' = DropNaColumns(df)
    /\ pc' = "rename_cols"
    /\ UNCHANGED <<uploaded_file, fig, buffer, shown, calls>>

RenameCols ==
    /\ pc = "rename_cols"
    /\ df' = rename_cols(df)
    /\ pc' = "focus_on_specific_columns"
    /\ calls' = Append(calls, "rename_cols")
    /\ UNCHANGED <<uploaded_file, fig, buffer, shown>>

FocusOnSpecificColumns ==
    /\ pc = "focus_on_specific_columns"
    /\ IF CanSelect(df, required_cols(df))
       THEN /\ df' = focus_on_specific_columns(df)
            /\ pc' = "get_revenue_per_category"
            /\ calls' = Append(calls, "focus_on_specific_columns")
       ELSE /\ Raise("focus_on_specific_columns")
            /\ UNCHANGED df
    /\ UNCHANGED <<uploaded_file, fig, buffer, shown>>

GetRevenuePerCategory ==
    /\ pc = "get_revenue_per_category"
    /\ IF CanFold(df)
       THEN /\ df' = get_revenue_per_category(df)
            /\ pc' = "st_dataframe"
            /\ calls' = Append(calls, "get_revenue_per_category")
       ELSE /\ Raise("get_revenue_per_category")
            /\ UNCHANGED df
    /\ UNCHANGED <<uploaded_file, fig, buffer, shown>>

StDataframe ==
    /\ pc = "st_dataframe"
    /\ shown' = Append(shown, "dataframe")
    /\ pc' = "make_subplots"
    /\ UNCHANGED <<uploaded_file, df, fig, buffer, calls>>

\* mutant: make_subplots is called without the x_title caption
MakeSubplotsWithoutCaption ==
    /\ pc = "make_subplots"
    /\ fig' = make_subplots(None)
    /\ pc' = "add_episodes"
    /\ calls' = Append(calls, "make_subplots")
    /\ UNCHANGED <<uploaded_file, df, buffer, shown>>

\* make_plot starts: the x_title argument reads the first row's date
MakeSubplots ==
    /\ pc = "make_subplots"
    /\ IF Len(df.rows) > 0
       THEN /\ fig' = make_subplots(Col(df, "(CVR) Date")[1])
            /\ pc' = "add_episodes"
            /\ calls' = Append(calls, "make_subplots")
       ELSE /\ Raise("make_subplots")
            /\ UNCHANGED fig
    /\ UNCHANGED <<uploaded_file, df, buffer, shown>>

\* one fig.add_trace(...) statement of make_plot
AddTraceStep(at, next, of, trace, row, col) ==
    /\ pc = at
    /\ IF SubplotType(row, col) = trace.type
       THEN /\ fig' = add_trace(fig, trace, row, col)
            /\ pc' = next
            /\ calls' = Append(calls, of)
       ELSE /\ Raise("add_trace")
            /\ UNCHANGED fig
    /\ UNCHANGED <<uploaded_file, df, buffer, shown>>

AddEpisodes ==
    AddTraceStep("add_episodes", "add_patients", "calculate_number_of_episodes",
                 Indicator("calculate_number_of_episodes", calculate_number_of_episodes(df)),
                 1, 1)

AddPatients ==
    AddTraceStep("add_patients", "add_net_revenue", "calculate_number_of_patients",
                 Indicator("calculate_number_of_patients", calculate_number_of_patients(df)),
                 1, 2)

AddNetRevenue ==
    AddTraceStep("add_net_revenue", "add_episodes_per_category", "calculate_net_revnenue",
                 Indicator("calculate_net_revnenue", calculate_net_revnenue(df)),
                 1, 3)

AddEpisodesPerCategory ==
    AddTraceStep("add_episodes_per_category", "add_new_vs_old",
                 "calculate_episodes_per_category",
                 Pie("calculate_episodes_per_category", calculate_episodes_per_category(df)),
                 2, 1)

AddNewVsOld ==
    AddTraceStep("add_new_vs_old", "add_revenue_per_speciality", "calculate_new_vs_old_reg",
                 Pie("calculate_new_vs_old_reg", calculate_new_vs_old_reg(df)),
                 2, 2)

AddRevenuePerSpeciality ==
    AddTraceStep("add_revenue_per_speciality", "add_insurance",
                 "calculate_revenue_per_speciality",
                 Pie("calculate_revenue_per_speciality", calculate_revenue_per_speciality(df)),
                 2, 3)

AddInsurance ==
    AddTraceStep("add_insurance", "update_layout", "calculate_insurance_vs_non_insurance",
                 Pie("calculate_insurance_vs_non_insurance",
                     calculate_insurance_vs_non_insurance(df)),
                 3, 3)

UpdateLayout ==
    /\ pc = "update_layout"
    /\ fig' = update_layout(fig)
    /\ pc' = "write_image"
    /\ UNCHANGED <<uploaded_file, df, buffer, shown, calls>>

\* fig.write_image(file=buffer, format="pdf"): the renderer is outside the
\* program and may raise
WriteImage ==
    /\ pc = "write_image"
    /\ \E rendered \in BOOLEAN :
          IF rendered
          THEN /\ buffer' = [format |-> "pdf", of |-> fig]
               /\ pc' = "download_button"
               /\ calls' = Append(calls, "write_image")
          ELSE /\ Raise("write_image")
               /\ UNCHANGED buffer
    /\ UNCHANGED <<uploaded_file, df, fig, shown>>

\* mutant: the download button is offered before the figure is exported
StDownloadButtonBeforeExport ==
    /\ pc = "write_image"
    /\ "download_button" \notin Range(shown)
    /\ shown' = Append(shown, "download_button")
    /\ UNCHANGED <<pc, uploaded_file, df, fig, buffer, calls>>

StDownloadButton ==
    /\ pc = "download_button"
    /\ shown' = Append(shown, "download_button")
    /\ pc' = "plotly_chart"
    /\ UNCHANGED <<uploaded_file, df, fig, buffer, calls>>

StPlotlyChart ==
    /\ pc = "plotly_chart"
    /\ shown' = Append(shown, "plotly_chart")
    /\ pc' = "done"
    /\ UNCHANGED <<uploaded_file, df, fig, buffer, calls>>

\* except Exception: st.error(...); st.stop()
Except ==
    /\ pc = "except"
    /\ shown' = Append(shown, "error")
    /\ pc' = "stopped"
    /\ UNCHANGED <<uploaded_file, df, fig, buffer, calls>>

Next ==
    \/ Upload
    \/ ReadExcel
    \/ DropNa
    \/ RenameCols
    \/ FocusOnSpecificColumns
    \/ GetRevenuePerCategory
    \/ StDataframe
    \/ MakeSubplots
    \/ AddEpisodes
    \/ AddPatients
    \/ AddNetRevenue
    \/ AddEpisodesPerCategory
    \/ AddNewVsOld
    \/ AddRevenuePerSpeciality
    \/ AddInsurance
    \/ UpdateLayout
    \/ WriteImage
    \/ StDownloadButton
    \/ StPlotlyChart
    \/ Except

Spec == Init /\ [][Next]_vars

(***************************************************************************)
(* Report.make_plot and the boundary after it, taken on its own: the       *)
(* boundary holds a normalized table (line 14 has returned) and the run    *)
(* goes on from st.dataframe.  The tables are the normalized sheets and    *)
(* their row prefixes, the table of no rows among them.                    *)
(***************************************************************************)
get_df_from_excel(file) ==
    get_revenue_per_category(focus_on_specific_columns(rename_cols(DropNaColumns(file))))

NormalizedTables ==
    LET full == {get_df_from_excel(Sheet(h, vs)) :
                   h \in {FullHeader, FullHeader \o <<PackageColumn>>},
                   vs \in VisitLists \ {<<>>}}
    IN full \cup {[t EXCEPT !.rows = <<>>] : t \in full}

InitReport ==
    /\ pc = "st_dataframe"
    /\ uploaded_file = None
    /\ df \in NormalizedTables
    /\ fig = None
    /\ buffer = None
    /\ shown = <<>>
    /\ calls = <<"get_df_from_excel", "rename_cols", "focus_on_specific_columns",
                 "get_revenue_per_category">>

NextReport ==
    \/ StDataframe
    \/ MakeSubplots
    \/ AddEpisodes
    \/ AddPatients
    \/ AddNetRevenue
    \/ AddEpisodesPerCategory
    \/ AddNewVsOld
    \/ AddRevenuePerSpeciality
    \/ AddInsurance
    \/ UpdateLayout
    \/ WriteImage
    \/ StDownloadButton
    \/ StPlotlyChart
    \/ Except

SpecReport == InitReport /\ [][NextReport]_vars

(***************************************************************************)
(* What the properties below speak of.                                     *)
(***************************************************************************)
Called(name) == name \in Range(calls)

\* get_df_from_excel has returned: df is the normalized table
Normalized == Called("get_revenue_per_category")

\* the exception of the run was raised in this step
RaisedIn(where) == Called("raise:" \o where)

NumErrors == Cardinality({i \in 1..Len(shown) : shown[i] = "error"})

\* the trace make_plot added as its k-th
HasTrace(k) == fig # None /\ Len(fig.traces) >= k

\* the uploaded sheet's cell in row r of the column with these three header tiers
RawCell(r, col_list) ==
    uploaded_file.rows[r][CHOOSE i \in 1..Len(uploaded_file.columns) :
                              uploaded_file.columns[i] = col_list]

\* the two-row table: row A Consultation 100 (60 cash, 40 insurance), row B Lab 50
\* (50 cash), both "Cardiology", A a new and B an old registration
IsTwoRowExample ==
    /\ Normalized
    /\ Len(df.rows) = 2
    /\ Col(df, "Consultation") = <<100, 0>>
    /\ Col(df, "Lab") = <<0, 50>>
    /\ \A c \in {"Radiology", "Procedure", "Consumable", "Drug"} : Col(df, c) = <<0, 0>>
    /\ Col(df, "Net Revenue") = <<100, 50>>
    /\ Col(df, "Ins.") = <<40, 0>>
    /\ Col(df, "Speciality") = <<"Cardiology", "Cardiology">>
    /\ Col(df, "New Reg.") = <<1, 0>>
    /\ Col(df, "Old Reg.") = <<0, 1>>

PipelineCompleted ==
    /\ Normalized
    /\ HasTrace(7) /\ fig.layout # None
    /\ buffer # None

(***************************************************************************)
(* C1 (as claimed): no output - table, download button, chart - is shown   *)
(* before normalize, build chart and export PDF have all completed, and a  *)
(* run that ends in the error state has shown the error message only.      *)
(***************************************************************************)
C1_NoOutputBeforeCompletion ==
    /\ (\E i \in 1..Len(shown) : shown[i] # "error") => PipelineCompleted
    /\ pc = "stopped" => shown = <<"error">>

(***************************************************************************)
(* C1 (amended): the download button and the chart are shown only once     *)
(* normalize, build chart and export PDF have completed; the normalized    *)
(* table is shown once normalization has succeeded, before the chart is    *)
(* built.  A run that fails during normalization has shown the error       *)
(* message only; a run that fails in make_plot or in the export has shown  *)
(* the normalized table and then the error message.                        *)
(***************************************************************************)
C1_OutputsAfterTheirStage ==
    /\ ("download_button" \in Range(shown) \/ "plotly_chart" \in Range(shown))
          => PipelineCompleted
    /\ "dataframe" \in Range(shown) => Normalized
    /\ pc = "stopped" =>
          shown = IF Normalized THEN <<"dataframe", "error">> ELSE <<"error">>

C1_Witness ==
    /\ pc = "stopped"
    /\ shown = <<"dataframe", "error">>
    /\ RaisedIn("write_image")

(***************************************************************************)
(* C2: after get_revenue_per_category, in every row and for every entry of *)
(* REVENUE_GENERATING_CATEGORIES (the second "Lab" too) the category       *)
(* column holds the row's <category>_Net_Cash plus its <category>_Net_Ins. *)
(* as uploaded; "Lab" is not added twice.                                  *)
(***************************************************************************)
C2_FoldedIsCashPlusIns ==
    (Normalized /\ uploaded_file # None) =>
        \A r \in 1..Len(df.rows) :
            \A k \in 1..Len(REVENUE_GENERATING_CATEGORIES) :
                LET category == REVENUE_GENERATING_CATEGORIES[k]
                IN Col(df, category)[r] =
                      RawCell(r, <<category, "Net", "Cash">>)
                      + RawCell(r, <<category, "Net", "Ins.">>)

C2_Witness ==
    /\ Normalized /\ uploaded_file # None
    /\ \E r \in 1..Len(df.rows) :
          /\ RawCell(r, <<"Lab", "Net", "Cash">>) = 20
          /\ RawCell(r, <<"Lab", "Net", "Ins.">>) = 30
          /\ Col(df, "Lab")[r] = 50

CategoryColumnsAreTheList ==
    /\ \A k \in 1..Len(REVENUE_GENERATING_CATEGORIES) :
          Cardinality({i \in 1..Len(df.columns) :
                         df.columns[i] = REVENUE_GENERATING_CATEGORIES[k]}) = 1
    /\ \A i \in 1..Len(df.columns) :
          \/ df.columns[i] \in Range(REVENUE_GENERATING_CATEGORIES)
          \/ df.columns[i] \in Range(MetadataColumns)
          \/ Contains("_Net_", df.columns[i])

(***************************************************************************)
(* C3 (as claimed): in every normalized table the revenue category columns *)
(* are exactly the categories of the list and no column whose name         *)
(* contains "_Net_" remains, whatever "_Net_" columns the sheet had.       *)
(***************************************************************************)
C3_NoNetColumnRemains ==
    Normalized =>
        /\ CategoryColumnsAreTheList
        /\ \A i \in 1..Len(df.columns) : ~Contains("_Net_", df.columns[i])

(***************************************************************************)
(* C3 (amended): in every normalized table each category of the list is a  *)
(* column, once, and every other column is a metadata column or a "_Net_"  *)
(* column of the sheet; no <category>_Net_Cash or <category>_Net_Ins.      *)
(* column of a listed category remains, while a "_Net_" column of any      *)
(* other name (here Package_Net_Cash) is selected and stays in the table.  *)
(***************************************************************************)
C3_ListedSubColumnsDropped ==
    Normalized =>
        /\ CategoryColumnsAreTheList
        /\ \A i \in 1..Len(df.columns) :
              \A k \in 1..Len(REVENUE_GENERATING_CATEGORIES) :
                  /\ df.columns[i] # REVENUE_GENERATING_CATEGORIES[k] \o "_Net_Cash"
                  /\ df.columns[i] # REVENUE_GENERATING_CATEGORIES[k] \o "_Net_Ins."
        /\ (uploaded_file # None /\ PackageColumn \in Range(uploaded_file.columns))
              => /\ HasCol(df, "Package_Net_Cash")
                 /\ \A r \in 1..Len(df.rows) :
                       Col(df, "Package_Net_Cash")[r] = RawCell(r, PackageColumn)

C3_Witness ==
    /\ Normalized
    /\ Len(df.rows) > 0
    /\ HasCol(df, "Package_Net_Cash")
    /\ ~HasCol(df, "Lab_Net_Ins.")

\* the non-zero category cells of the table, each cell once
NonZeroCells ==
    {rc \in (1..Len(df.rows)) \X Range(REVENUE_GENERATING_CATEGORIES) :
        Col(df, rc[2])[rc[1]] # 0}

(***************************************************************************)
(* C4: calculate_number_of_episodes returns the number of non-zero cells   *)
(* of the category columns, over all rows and categories, each cell of the *)
(* table counted once; for the two-row table it returns 2.                 *)
(***************************************************************************)
C4_EpisodesCountEachCellOnce ==
    HasTrace(1) =>
        /\ fig.traces[1].trace.data.value = Cardinality(NonZeroCells)
        /\ IsTwoRowExample => fig.traces[1].trace.data.value = 2

NonZeroRows(category) == {r \in 1..Len(df.rows) : Col(df, category)[r] # 0}

(***************************************************************************)
(* C5: the labels of calculate_episodes_per_category are categories of the *)
(* list, a category is a label exactly when its column has a non-zero      *)
(* entry, and the value paired with a label is the strictly positive count *)
(* of the non-zero entries of that category's column.                      *)
(***************************************************************************)
C5_EpisodesPerCategory ==
    HasTrace(4) =>
        LET pie == fig.traces[4].trace.data
        IN /\ Len(pie.labels) = Len(pie.values)
           /\ Range(pie.labels) \subseteq Range(REVENUE_GENERATING_CATEGORIES)
           /\ \A c \in Range(REVENUE_GENERATING_CATEGORIES) :
                 c \in Range(pie.labels) <=> NonZeroRows(c) # {}
           /\ \A i \in 1..Len(pie.labels) :
                 /\ pie.values[i] = Cardinality(NonZeroRows(pie.labels[i]))
                 /\ pie.values[i] > 0

C5_Witness ==
    /\ HasTrace(4)
    /\ fig.traces[4].trace.data.labels = <<"Lab">>
    /\ fig.traces[4].trace.data.values = <<1>>
    /\ \E r \in 1..Len(df.rows) : Col(df, "Lab")[r] = 0

InsuranceSum == SumSeq(Col(df, "Ins."))
NetRevenueSum == SumSeq(Col(df, "Net Revenue"))

(***************************************************************************)
(* C6 (as claimed): calculate_insurance_vs_non_insurance yields the pair   *)
(* whose first value is the sum of the insurance-total column and whose    *)
(* second is the sum of total net revenue minus that insurance sum; for    *)
(* the two-row table it yields (40, 110).                                  *)
(***************************************************************************)
C6_InsuranceFirst ==
    HasTrace(7) =>
        /\ fig.traces[7].trace.data.values = <<InsuranceSum, NetRevenueSum - InsuranceSum>>
        /\ IsTwoRowExample => fig.traces[7].trace.data.values = <<40, 110>>

(***************************************************************************)
(* C6 (amended): the pair's first value is the sum of total net revenue    *)
(* minus the insurance sum (label "Non Ins") and its second value is the   *)
(* sum of the insurance-total column (label "Ins"); for the two-row table  *)
(* it yields (110, 40).                                                    *)
(***************************************************************************)
C6_NonInsuranceFirst ==
    HasTrace(7) =>
        /\ fig.traces[7].trace.data.labels = <<"Non Ins", "Ins">>
        /\ fig.traces[7].trace.data.values = <<NetRevenueSum - InsuranceSum, InsuranceSum>>
        /\ IsTwoRowExample => fig.traces[7].trace.data.values = <<110, 40>>

C6_Witness ==
    /\ HasTrace(7)
    /\ IsTwoRowExample
    /\ fig.traces[7].trace.data.values = <<110, 40>>

Specialities == Range(Col(df, "Speciality"))

First6(name) ==
    CHOOSE l \in {SubSeq(name, 1, n) : n \in 0..Len(name)} :
        Len(l) = (IF Len(name) < 6 THEN Len(name) ELSE 6)

RevenueOf(speciality) ==
    LET rows == {r \in 1..Len(df.rows) : Col(df, "Speciality")[r] = speciality}
        RECURSIVE Total(_)
        Total(R) == IF R = {} THEN 0
                    ELSE LET r == CHOOSE x \in R : TRUE
                         IN Col(df, "Net Revenue")[r] + Total(R \ {r})
    IN Total(rows)

(***************************************************************************)
(* C7: calculate_revenue_per_speciality returns one (label, value) pair    *)
(* per distinct speciality of the table: the value is the sum of total net *)
(* revenue over the rows of that speciality, the label the first 6         *)
(* characters of its name.                                                 *)
(***************************************************************************)
C7_RevenuePerSpeciality ==
    HasTrace(6) =>
        LET pie == fig.traces[6].trace.data
        IN /\ Len(pie.labels) = Cardinality(Specialities)
           /\ Len(pie.values) = Cardinality(Specialities)
           /\ \E at \in [Specialities -> 1..Len(pie.labels)] :
                 /\ \A s, t \in Specialities : s # t => at[s] # at[t]
                 /\ \A s \in Specialities :
                       /\ pie.labels[at[s]] = First6(s)
                       /\ pie.values[at[s]] = RevenueOf(s)

C7_Witness ==
    /\ HasTrace(6)
    /\ fig.traces[6].trace.data.labels = <<"Cardio", "ENT">>
    /\ fig.traces[6].trace.data.values = <<100, 50>>

RequiredMetadata ==
    {"Net Revenue", "Ins.", "Policy Name", "New Reg.", "Old Reg.", "Speciality",
     "Doctor Name", "(CVR) Date"}

LacksMetadataColumn ==
    /\ uploaded_file # None
    /\ \E m \in RequiredMetadata :
          \A i \in 1..Len(uploaded_file.columns) : uploaded_file.columns[i][1] # m

(***************************************************************************)
(* C8: a sheet that lacks one of the required metadata columns fails in    *)
(* focus_on_specific_columns: no category is folded, no aggregate is       *)
(* computed, no chart is built, and the run ends in the error state with   *)
(* the error displayed once.                                               *)
(***************************************************************************)
C8_MissingMetadataFailsInSelection ==
    LacksMetadataColumn =>
        /\ pc \in {"read_excel", "dropna", "rename_cols", "focus_on_specific_columns",
                   "except", "stopped"}
        /\ ~Called("focus_on_specific_columns")
        /\ ~Called("get_revenue_per_category")
        /\ \A a \in Aggregates : ~Called(a)
        /\ fig = None /\ buffer = None
        /\ pc \in {"except", "stopped"} => RaisedIn("focus_on_specific_columns")
        /\ pc = "stopped" => shown = <<"error">>

C8_Witness ==
    /\ LacksMetadataColumn
    /\ \A i \in 1..Len(uploaded_file.columns) : uploaded_file.columns[i][1] # "Speciality"
    /\ Len(uploaded_file.rows) = 2
    /\ pc = "stopped"
    /\ NumErrors = 1

Placement(k) == <<fig.traces[k].trace.of, fig.traces[k].row, fig.traces[k].col>>

MakePlotReturned == fig # None /\ fig.layout # None

C10_EmptyTableFailsAtCaption ==
    (Normalized /\ Len(df.rows) = 0) =>
        /\ pc \in {"st_dataframe", "make_subplots", "except", "stopped"}
        /\ fig = None /\ buffer = None
        /\ \A a \in Aggregates : ~Called(a)
        /\ ~Called("make_subplots")
        /\ pc \in {"except", "stopped"} => RaisedIn("make_subplots")
        /\ "download_button" \notin Range(shown)
        /\ "plotly_chart" \notin Range(shown)
        /\ NumErrors = (IF pc = "stopped" THEN 1 ELSE 0)
        /\ pc = "stopped" => ~ENABLED NextReport
        /\ pc # "stopped" => ENABLED NextReport

C10_Witness ==
    /\ Normalized
    /\ Len(df.rows) = 0
    /\ pc = "stopped"
    /\ RaisedIn("make_subplots")
    /\ NumErrors = 1

====
